---- MODULE Spec2Model ----
(***************************************************************************)
(* A model of the DID range-classification and pricing engine of           *)
(* e164bill/did.py (class DIDHandler and main).                            *)
(*                                                                         *)
(* Representation:                                                         *)
(*   - a DID is a string of decimal digits, modelled as a sequence over    *)
(*     0..9, so that int(did) is a real conversion ("07" and "7" are two   *)
(*     strings with one numeric value);                                    *)
(*   - a date is [y, m, d]; a datetime is [y, m, d, hh];                   *)
(*   - SQL NULL / Python None is NULL for integer columns, NoDate for      *)
(*     datetime columns, NoDid for a did and None for a product code;      *)
(*   - costs are whole currency units, for which float() is exact.         *)
(***************************************************************************)
EXTENDS Integers, Sequences, FiniteSets, TLC

VARIABLES
    pc,               \* position of main(): "start", "connected", "updating", "processed",
                      \* "exported", "failed" (an exception is propagating), "closed",
                      \* "parsing" (before parse_args), "usage" (ended by parse_args),
                      \* "crashed" (ended by an exception of the constructor)
    customer_type,    \* args.customer_type
    cutoff_date,      \* DIDHandler.cutoff_date
    report_date,      \* the report_date handed to process()
    E164_products,    \* table E164_products, rows in storage order
    channel_did,      \* table channel_did, rows in storage order
    db_open,          \* whether the connection of the handler is open
    product_mappings, \* DIDHandler.product_mappings (insertion-ordered dict)
    dids,             \* the rows fetched by process()
    results,          \* the list process() returns
    runs,             \* history: every current_range handed to process_range, in order
    run_items,        \* history: what process_range returned for each of them
    skipped,          \* history: the records identify_ranges skipped as future-dated
    call,             \* the last direct call of a pure method and its result
    tx,               \* the open transaction of the connection during process()
    conn,             \* history: how often the connection was opened and closed
    argv,             \* the command line: the value of --customer-type, None when absent;
                      \* for main.py the values of --year and --month, NULL when absent
    report            \* main.py's state: today, table call_history, the parameters of
                      \* the call query, the rows it returned, year_month_str, the files

vars == <<pc, customer_type, cutoff_date, report_date, E164_products, channel_did,
          db_open, product_mappings, dids, results, runs, run_items, skipped, call, tx,
          conn, argv, report>>

----------------------------------------------------------------------------
(* Null values *)

NULL == 0 - 1
NoDate == [y |-> 0, m |-> 0, d |-> 0, hh |-> 0]
NoDid == <<>>
None == "None"

(* Python truthiness of a str-or-None value: None and '' are false. *)
Falsy(s) == s = None \/ s = ""

(* The block thresholds of process_range. *)
Block100Len == 100
Block10Len == 10

----------------------------------------------------------------------------
(* Strings of digits and int() *)

RECURSIVE IntOf(_)
IntOf(s) == IF s = <<>> THEN 0 ELSE IntOf(SubSeq(s, 1, Len(s) - 1)) * 10 + s[Len(s)]

----------------------------------------------------------------------------
(* Dates *)

IsLeap(y) == (y % 4 = 0 /\ y % 100 # 0) \/ y % 400 = 0

DaysInMonth(y, m) ==
    IF m \in {4, 6, 9, 11} THEN 30
    ELSE IF m = 2 THEN (IF IsLeap(y) THEN 29 ELSE 28)
    ELSE 31

(* datetime.date() *)
DateOf(dt) == [y |-> dt.y, m |-> dt.m, d |-> dt.d]

(* date.replace(day=1) *)
ReplaceDay1(dd) == [dd EXCEPT !.d = 1]

(* date - timedelta(days=1) *)
MinusOneDay(dd) ==
    IF dd.d > 1 THEN [dd EXCEPT !.d = @ - 1]
    ELSE IF dd.m > 1 THEN [y |-> dd.y, m |-> dd.m - 1, d |-> DaysInMonth(dd.y, dd.m - 1)]
    ELSE [y |-> dd.y - 1, m |-> 12, d |-> 31]

(* date > date *)
DateGT(a, b) ==
    \/ a.y > b.y
    \/ a.y = b.y /\ a.m > b.m
    \/ a.y = b.y /\ a.m = b.m /\ a.d > b.d

----------------------------------------------------------------------------
(* should_charge_setup *)

ShouldChargeSetup_SameMonth(mod_date, report_month) ==
    IF mod_date = NoDate THEN FALSE
    ELSE ReplaceDay1(DateOf(mod_date)) = ReplaceDay1(report_month)

ShouldChargeSetup_NoneCharged(mod_date, report_month) ==
    IF mod_date = NoDate THEN TRUE
    ELSE ReplaceDay1(DateOf(mod_date)) = MinusOneDay(ReplaceDay1(report_month))

ShouldChargeSetup(mod_date, report_month) ==
    IF mod_date = NoDate THEN FALSE
    ELSE LET prior_month == MinusOneDay(ReplaceDay1(report_month))
             mod_month == ReplaceDay1(DateOf(mod_date))
         IN  mod_month = prior_month

----------------------------------------------------------------------------
(* The product catalog *)

(* A did_map is the SQL expression of a rule; the query of                 *)
(* determine_did_product selects a row iff the expression, evaluated on    *)
(* the number, equals the number.  The expressions modelled rebuild the    *)
(* number from a fixed prefix, a fixed suffix and a fixed total length     *)
(* (len = 0: any length), so a rule matches the numbers that have them.    *)
NoMap == [prefix |-> <<>>, suffix |-> <<>>, len |-> NULL]

HasPrefix(s, p) == Len(p) <= Len(s) /\ SubSeq(s, 1, Len(p)) = p
HasSuffix(s, p) == Len(p) <= Len(s) /\ SubSeq(s, Len(s) - Len(p) + 1, Len(s)) = p

DidMapMatches(did_map, did) ==
    /\ HasPrefix(did, did_map.prefix)
    /\ HasSuffix(did, did_map.suffix)
    /\ (did_map.len = 0 \/ did_map.len = Len(did))

(* load_product_mappings: a dict keyed by product code, filled row by row: *)
(* a code seen again keeps its place and takes the later row's values.     *)
MappingOf(row) ==
    [code |-> row.E164_product_code, id |-> row.E164_product_id, did_map |-> row.did_map,
     name |-> row.product_name, default_setup |-> row.billing_cost_setup,
     default_mrc |-> row.billing_cost_mrc]

DictPut(mappings, m) ==
    IF \E i \in 1..Len(mappings) : mappings[i].code = m.code
    THEN [i \in 1..Len(mappings) |-> IF mappings[i].code = m.code THEN m ELSE mappings[i]]
    ELSE Append(mappings, m)

RECURSIVE LoadUpTo(_, _)
LoadUpTo(rows, n) ==
    IF n = 0 THEN <<>>
    ELSE IF rows[n].did_map # NoMap
         THEN DictPut(LoadUpTo(rows, n - 1), MappingOf(rows[n]))
         ELSE LoadUpTo(rows, n - 1)

LoadProductMappings(rows) == LoadUpTo(rows, Len(rows))

InMappings(product_code) == \E i \in 1..Len(product_mappings) : product_mappings[i].code = product_code

Mapping(product_code) ==
    product_mappings[CHOOSE i \in 1..Len(product_mappings) : product_mappings[i].code = product_code]

(* determine_did_product: the first mapping, in dict order, whose did_map  *)
(* matches. *)
RECURSIVE FirstMatchFrom(_, _)
FirstMatchFrom(did_str, i) ==
    IF i > Len(product_mappings) THEN None
    ELSE IF DidMapMatches(product_mappings[i].did_map, did_str) THEN product_mappings[i].code
    ELSE FirstMatchFrom(did_str, i + 1)

(* The loop without its return: the last matching mapping wins. *)
DetermineDidProduct_LastMatch(did_str) ==
    LET matching == {i \in 1..Len(product_mappings) :
                        DidMapMatches(product_mappings[i].did_map, did_str)}
    IN  IF matching = {} THEN None
        ELSE product_mappings[CHOOSE i \in matching : \A j \in matching : j <= i].code

DetermineDidProduct(did_str) == FirstMatchFrom(did_str, 1)

----------------------------------------------------------------------------
(* get_product_pricing *)

(* MAX over a set of column values, NULLs ignored; NULL for none. *)
SqlMax(S) ==
    LET vals == S \ {NULL}
    IN  IF vals = {} THEN NULL ELSE CHOOSE v \in vals : \A w \in vals : w <= v

Coalesce(a, b) == IF a # NULL THEN a ELSE b

PricingRows(product_id) ==
    {i \in 1..Len(E164_products) : E164_products[i].E164_product_id = product_id}

(* The lookup without the fall back to the default pricing. *)
GetProductPricing_NoFallback(product_code, owner_id) ==
    IF ~InMappings(product_code) THEN <<0, 0>>
    ELSE LET rows == PricingRows(Mapping(product_code).id)
             own == {i \in rows : owner_id # NULL /\ E164_products[i].reseller_id = owner_id}
             glob == {i \in rows : E164_products[i].reseller_id = NULL}
         IN  <<Coalesce(SqlMax({E164_products[i].billing_cost_setup : i \in own}),
                        SqlMax({E164_products[i].billing_cost_setup : i \in glob})),
               Coalesce(SqlMax({E164_products[i].billing_cost_mrc : i \in own}),
                        SqlMax({E164_products[i].billing_cost_mrc : i \in glob}))>>

GetProductPricing(product_code, owner_id) ==
    IF ~InMappings(product_code) THEN <<0, 0>>
    ELSE LET product_id == Mapping(product_code).id
             rows == PricingRows(product_id)
             own == {i \in rows : owner_id # NULL /\ E164_products[i].reseller_id = owner_id}
             glob == {i \in rows : E164_products[i].reseller_id = NULL}
             setup_cost == Coalesce(SqlMax({E164_products[i].billing_cost_setup : i \in own}),
                                    SqlMax({E164_products[i].billing_cost_setup : i \in glob}))
             mrc_cost == Coalesce(SqlMax({E164_products[i].billing_cost_mrc : i \in own}),
                                  SqlMax({E164_products[i].billing_cost_mrc : i \in glob}))
         IN  IF setup_cost # NULL /\ mrc_cost # NULL
             THEN <<setup_cost, mrc_cost>>
             ELSE <<Mapping(product_code).default_setup, Mapping(product_code).default_mrc>>

----------------------------------------------------------------------------
(* Sorting by (owner_id, int(did)): a stable sort, as Python's sorted() *)

KeyLE(a, b) ==
    \/ a.owner_id < b.owner_id
    \/ a.owner_id = b.owner_id /\ IntOf(a.did) <= IntOf(b.did)

(* The place of x in the sorted list s: after every element whose key is   *)
(* not greater (x came later in the input).  s[1..lo-1] have keys not      *)
(* greater than x's, s[hi+1..] have greater keys. *)
RECURSIVE InsertPos(_, _, _, _)
InsertPos(s, x, lo, hi) ==
    IF lo > hi THEN hi
    ELSE LET mid == (lo + hi) \div 2
         IN  IF KeyLE(s[mid], x) THEN InsertPos(s, x, mid + 1, hi)
             ELSE InsertPos(s, x, lo, mid - 1)

InsertSorted(s, x) ==
    LET p == InsertPos(s, x, 1, Len(s))
    IN  SubSeq(s, 1, p) \o <<x>> \o SubSeq(s, p + 1, Len(s))

(* Op applied to the value of v: the first half of a loop is evaluated     *)
(* before the second half is entered. *)
Then(v, Op(_)) == CHOOSE r \in {Op(x) : x \in {v}} : TRUE

(* acc with s[lo..hi] inserted one by one, in order; the interval is       *)
(* halved to keep the evaluation depth logarithmic. *)
RECURSIVE SortRange(_, _, _, _)
SortRange(s, acc, lo, hi) ==
    IF lo > hi THEN acc
    ELSE IF lo = hi THEN InsertSorted(acc, s[lo])
    ELSE LET mid == (lo + hi) \div 2
         IN  Then(SortRange(s, acc, lo, mid), LAMBDA left : SortRange(s, left, mid + 1, hi))

StableSort(s) == SortRange(s, <<>>, 1, Len(s))

SortedDids_Unsorted(s) == s

(* sorted(dids, key=lambda x: (x['owner_id'], int(x['did']))) *)
SortedDids(s) == StableSort(s)

----------------------------------------------------------------------------
(* process_range *)

Item(did, range_start, range_end, product_code, owner_id, setup, mrc) ==
    [did |-> did, range_start |-> range_start, range_end |-> range_end,
     did_product |-> product_code, owner_id |-> owner_id,
     product_name |-> Mapping(product_code).name, setup |-> setup, mrc |-> mrc]

(* The else-branch with the recurring cost charged only together with the *)
(* setup cost. *)
SingleItems_MrcTimed(entry, rdate) ==
    LET product_code == DetermineDidProduct(entry.did)
    IN  IF Falsy(product_code) THEN <<>>
        ELSE LET pricing == GetProductPricing(product_code, entry.owner_id)
                 should_setup == ShouldChargeSetup(entry.mod_date, rdate)
             IN  <<Item(entry.did, NoDid, NoDid, product_code, entry.owner_id,
                        IF should_setup THEN pricing[1] ELSE 0,
                        IF should_setup THEN pricing[2] ELSE 0)>>

(* One classified number of the else-branch (lines 339-355): no item when  *)
(* the number matches no rule. *)
SingleItems(entry, rdate) ==
    LET product_code == DetermineDidProduct(entry.did)
    IN  IF Falsy(product_code) THEN <<>>
        ELSE LET pricing == GetProductPricing(product_code, entry.owner_id)
                 should_setup == ShouldChargeSetup(entry.mod_date, rdate)
                 actual_setup == IF should_setup THEN pricing[1] ELSE 0
             IN  <<Item(entry.did, NoDid, NoDid, product_code, entry.owner_id,
                        actual_setup, pricing[2])>>

(* The for loop of the else-branch over range_entries[lo..hi]. *)
RECURSIVE SinglesRange(_, _, _, _)
SinglesRange(range_entries, lo, hi, rdate) ==
    IF lo > hi THEN <<>>
    ELSE IF lo = hi THEN SingleItems(range_entries[lo], rdate)
    ELSE LET mid == (lo + hi) \div 2
         IN  SinglesRange(range_entries, lo, mid, rdate)
             \o SinglesRange(range_entries, mid + 1, hi, rdate)

(* The block item charging setup as soon as a later member of the run has *)
(* a modification time. *)
BlockItem_AnyModified(range_entries, product_code, rdate) ==
    LET pricing == GetProductPricing(product_code, range_entries[1].owner_id)
        should_setup ==
            \/ ShouldChargeSetup(range_entries[1].mod_date, rdate)
            \/ \E i \in 2..Len(range_entries) : range_entries[i].mod_date # NoDate
        actual_setup == IF should_setup THEN pricing[1] ELSE 0
    IN  Item(range_entries[1].did, range_entries[1].did,
             range_entries[Len(range_entries)].did, product_code,
             range_entries[1].owner_id, actual_setup, pricing[2])

(* The block item reported under the run's last number. *)
BlockItem_DidIsLast(range_entries, product_code, rdate) ==
    LET pricing == GetProductPricing(product_code, range_entries[1].owner_id)
        should_setup == ShouldChargeSetup(range_entries[1].mod_date, rdate)
        actual_setup == IF should_setup THEN pricing[1] ELSE 0
    IN  Item(range_entries[Len(range_entries)].did, range_entries[1].did,
             range_entries[Len(range_entries)].did, product_code,
             range_entries[1].owner_id, actual_setup, pricing[2])

(* The item of the if-branch (lines 322-336). *)
BlockItem(range_entries, product_code, rdate) ==
    LET pricing == GetProductPricing(product_code, range_entries[1].owner_id)
        should_setup == ShouldChargeSetup(range_entries[1].mod_date, rdate)
        actual_setup == IF should_setup THEN pricing[1] ELSE 0
    IN  Item(range_entries[1].did, range_entries[1].did,
             range_entries[Len(range_entries)].did, product_code,
             range_entries[1].owner_id, actual_setup, pricing[2])

(* The block test with the thresholds excluded. *)
IsBlock_Strict(product_code, n) ==
    \/ product_code = "AU-DID-100" /\ n > Block100Len
    \/ product_code = "AU-DID-10" /\ n > Block10Len

IsBlock(product_code, n) ==
    \/ product_code = "AU-DID-100" /\ n >= Block100Len
    \/ product_code = "AU-DID-10" /\ n >= Block10Len

ProcessRange(range_entries, rdate) ==
    LET first_did == range_entries[1].did
        product_code == DetermineDidProduct(first_did)
    IN  IF Falsy(product_code) THEN <<>>
        ELSE IF IsBlock(product_code, Len(range_entries))
             THEN <<BlockItem(range_entries, product_code, rdate)>>
             ELSE SinglesRange(range_entries, 1, Len(range_entries), rdate)

----------------------------------------------------------------------------
(* identify_ranges *)

(* The loop state: current_range and ranges of the code, with the runs     *)
(* handed to process_range, what it returned for each and the records      *)
(* skipped kept as a history. *)
ScanInit ==
    [current_range |-> <<>>, ranges |-> <<>>, runs |-> <<>>, run_items |-> <<>>,
     skipped |-> <<>>]

(* The items of a run put in front of the earlier ones. *)
Emit_Prepends(st, rdate) ==
    LET items == ProcessRange(st.current_range, rdate)
    IN  [st EXCEPT !.ranges = items \o @,
                   !.runs = Append(@, st.current_range),
                   !.run_items = Append(@, items)]

(* ranges.extend(self.process_range(current_range, report_date)) *)
Emit(st, rdate) ==
    LET items == ProcessRange(st.current_range, rdate)
    IN  [st EXCEPT !.ranges = @ \o items,
                   !.runs = Append(@, st.current_range),
                   !.run_items = Append(@, items)]

(* The cutoff test with the cutoff day itself excluded. *)
IsFutureDated_Inclusive(did_entry) ==
    /\ did_entry.cr_date # NoDate
    /\ (DateGT(DateOf(did_entry.cr_date), cutoff_date) \/ DateOf(did_entry.cr_date) = cutoff_date)

IsFutureDated(did_entry) ==
    did_entry.cr_date # NoDate /\ DateGT(DateOf(did_entry.cr_date), cutoff_date)

Extends_IgnoresOwner(current_range, did_entry) ==
    IntOf(did_entry.did) = IntOf(current_range[Len(current_range)].did) + 1

(* The run test that also closes a run once it has two members. *)
Extends_Capped(current_range, did_entry) ==
    /\ Len(current_range) < 2
    /\ did_entry.owner_id = current_range[1].owner_id
    /\ IntOf(did_entry.did) = IntOf(current_range[Len(current_range)].did) + 1

Extends(current_range, did_entry) ==
    /\ did_entry.owner_id = current_range[1].owner_id
    /\ IntOf(did_entry.did) = IntOf(current_range[Len(current_range)].did) + 1

(* The loop body with a skipped record closing the current run. *)
ScanStep_SkipBreaksRun(st, did_entry, rdate) ==
    IF IsFutureDated(did_entry)
    THEN IF st.current_range = <<>>
         THEN [st EXCEPT !.skipped = Append(@, did_entry)]
         ELSE [Emit(st, rdate) EXCEPT !.current_range = <<>>,
                                      !.skipped = Append(@, did_entry)]
    ELSE IF st.current_range = <<>>
    THEN [st EXCEPT !.current_range = <<did_entry>>]
    ELSE IF Extends(st.current_range, did_entry)
    THEN [st EXCEPT !.current_range = Append(@, did_entry)]
    ELSE [Emit(st, rdate) EXCEPT !.current_range = <<did_entry>>]

(* One iteration of the for loop (lines 278-294). *)
ScanStep(st, did_entry, rdate) ==
    IF IsFutureDated(did_entry)
    THEN [st EXCEPT !.skipped = Append(@, did_entry)]
    ELSE IF st.current_range = <<>>
    THEN [st EXCEPT !.current_range = <<did_entry>>]
    ELSE IF Extends(st.current_range, did_entry)
    THEN [st EXCEPT !.current_range = Append(@, did_entry)]
    ELSE [Emit(st, rdate) EXCEPT !.current_range = <<did_entry>>]

(* The for loop over sorted_dids[lo..hi], started in loop state st. *)
RECURSIVE ScanRange(_, _, _, _, _)
ScanRange(sorted_dids, st, lo, hi, rdate) ==
    IF lo > hi THEN st
    ELSE IF lo = hi THEN ScanStep(st, sorted_dids[lo], rdate)
    ELSE LET mid == (lo + hi) \div 2
         IN  Then(ScanRange(sorted_dids, st, lo, mid, rdate),
                  LAMBDA left : ScanRange(sorted_dids, left, mid + 1, hi, rdate))

ScanFlush_Dropped(st, rdate) == st

(* The flush after the loop (lines 296-297). *)
ScanFlush(st, rdate) ==
    IF st.current_range # <<>>
    THEN [Emit(st, rdate) EXCEPT !.current_range = <<>>]
    ELSE st

ScanAll(sorted_dids, rdate) ==
    ScanFlush(ScanRange(sorted_dids, ScanInit, 1, Len(sorted_dids), rdate), rdate)

IdentifyRanges(dd, rdate) ==
    Then(SortedDids(dd), LAMBDA sorted_dids : ScanAll(sorted_dids, rdate))

----------------------------------------------------------------------------
(* The queries of process and update_database *)

OwnerOf(row) == IF customer_type = "CLIENT" THEN row.client_id ELSE row.reseller_id

Reverse(s) == [i \in 1..Len(s) |-> s[Len(s) + 1 - i]]

FetchedRow(row) ==
    [did |-> row.did, owner_id |-> OwnerOf(row), cr_date |-> row.cr_date,
     mod_date |-> row.mod_date]

HasOwner(row) == OwnerOf(row) # NULL

SelectOwned(rows) ==
    LET owned == SelectSeq(rows, HasOwner)
    IN  [i \in 1..Len(owned) |-> FetchedRow(owned[i])]

(* get_base_query: the rows with an owner, ORDER BY owner, CAST(did AS     *)
(* UNSIGNED).  SQL leaves the order of rows with equal keys open: the      *)
(* server may keep the storage order of such rows or return them reversed. *)
BaseQuery(reversed) ==
    LET owned == SelectOwned(channel_did)
    IN  StableSort(IF reversed THEN Reverse(owned) ELSE owned)

(* The WHERE clause of get_update_query for one result. *)
UpdateMatches(row, result) ==
    /\ OwnerOf(row) # NULL
    /\ OwnerOf(row) = result.owner_id
    /\ IF result.range_start # NoDid
       THEN /\ IntOf(row.did) >= IntOf(result.range_start)
            /\ IntOf(row.did) <= IntOf(result.range_end)
       ELSE row.did = result.did

ApplyUpdate(rows, result) ==
    [i \in 1..Len(rows) |->
        IF UpdateMatches(rows[i], result)
        THEN IF customer_type = "CLIENT"
             THEN [rows[i] EXCEPT !.E164_client_product = result.did_product]
             ELSE [rows[i] EXCEPT !.E164_reseller_product = result.did_product]
        ELSE rows[i]]

(* update_database: one UPDATE per result, in order, then the commit. *)
RECURSIVE UpdateRange(_, _, _, _)
UpdateRange(rows, res, lo, hi) ==
    IF lo > hi THEN rows
    ELSE IF lo = hi THEN ApplyUpdate(rows, res[lo])
    ELSE LET mid == (lo + hi) \div 2
         IN  Then(UpdateRange(rows, res, lo, mid), LAMBDA left : UpdateRange(left, res, mid + 1, hi))

UpdateDatabase(rows, res) == UpdateRange(rows, res, 1, Len(res))

(* The re-sort with the order turned around. *)
SortedResults_Descending(res) == Reverse(StableSort(res))

(* The CARRIER re-sort of process (lines 376-377). *)
SortedResults(res) == StableSort(res)

(* get_customer_name: the client table is not part of the state, every     *)
(* owner gets the fallback name. *)
GetCustomerName(owner_id) == "Unknown (" \o ToString(owner_id) \o ")"

(* num_dids as the difference of the two ends. *)
NumDids_Difference(result) ==
    IF result.range_end # NoDid
    THEN IntOf(result.range_end) - IntOf(result.range_start)
    ELSE 1

(* num_dids of one result (lines 441-445). *)
NumDids(result) ==
    IF result.range_end # NoDid
    THEN IntOf(result.range_end) - IntOf(result.range_start) + 1
    ELSE 1

(* The sum of Op over res[lo..hi]. *)
RECURSIVE SumOver(_, _, _, _)
SumOver(res, Op(_), lo, hi) ==
    IF lo > hi THEN 0
    ELSE IF lo = hi THEN Op(res[lo])
    ELSE LET mid == (lo + hi) \div 2
         IN  SumOver(res, Op, lo, mid) + SumOver(res, Op, mid + 1, hi)

Total(res, Op(_)) == SumOver(res, Op, 1, Len(res))

(* generate_summary: the overall totals and, for every owner among the     *)
(* results, its totals and its count of numbers per product code. *)
GenerateSummary(res) ==
    LET product_codes == {product_mappings[i].code : i \in 1..Len(product_mappings)}
        owners == {res[i].owner_id : i \in 1..Len(res)}
        Of(owner_id) == SelectSeq(res, LAMBDA r : r.owner_id = owner_id)
        Customer(owner_id) ==
            [name |-> GetCustomerName(owner_id),
             total_dids |-> Total(Of(owner_id), NumDids),
             total_setup |-> Total(Of(owner_id), LAMBDA r : r.setup),
             total_mrc |-> Total(Of(owner_id), LAMBDA r : r.mrc),
             products |-> [code \in product_codes |->
                             Total(SelectSeq(Of(owner_id), LAMBDA r : r.did_product = code),
                                   NumDids)]]
    IN  [total_dids |-> Total(res, NumDids),
         total_setup |-> Total(res, LAMBDA r : r.setup),
         total_mrc |-> Total(res, LAMBDA r : r.mrc),
         customers |-> [owner_id \in owners |-> Customer(owner_id)]]

----------------------------------------------------------------------------
(* The connection and its transaction *)

(* The connection's history: opened by mysql.connector.connect in        *)
(* __init__, closed by db.close() in cleanup. *)
NoConn == [opens |-> 0, closes |-> 0]
OpenedConn == [opens |-> 1, closes |-> 0]

(* load_product_mappings raises: float() of a NULL cost of a rule row      *)
(* (lines 114-115). *)
LoadRaises(rows) ==
    \E i \in 1..Len(rows) :
        /\ rows[i].did_map # NoMap
        /\ (rows[i].billing_cost_setup = NULL \/ rows[i].billing_cost_mrc = NULL)

(* The transaction of the connection: autocommit is off, the UPDATEs of   *)
(* update_database are seen by the connection (pending) and reach the      *)
(* table (durable) at db.commit(); closing the connection drops what was   *)
(* not committed.  before is the table when process() was entered, next    *)
(* the place in results of the next UPDATE. *)
IdleTx(rows) ==
    [pending |-> rows, before |-> rows, next |-> 1, writes |-> 0, commits |-> 0,
     error |-> "none"]

TxFields == {"pending", "before", "next", "writes", "commits", "error"}

TxOf(s) == [f \in TxFields |-> s[f]]

Session == [durable |-> channel_did] @@ tx

(* The loop body with a commit after every UPDATE. *)
ExecuteUpdate_CommitEach(s, result) ==
    LET updated == ApplyUpdate(s.pending, result)
    IN  [s EXCEPT !.pending = updated, !.durable = updated, !.next = @ + 1,
                  !.writes = @ + 1, !.commits = @ + 1]

(* One iteration of the loop of update_database (lines 389-407). *)
ExecuteUpdate(s, result) ==
    [s EXCEPT !.pending = ApplyUpdate(@, result), !.next = @ + 1, !.writes = @ + 1]

(* self.db.commit() (line 409) *)
CommitTx(s) == [s EXCEPT !.durable = s.pending, !.commits = @ + 1]

(* An UPDATE that raises, with the work done so far committed on the way   *)
(* out. *)
AbortUpdate_Commits(s) ==
    [s EXCEPT !.durable = s.pending, !.commits = @ + 1, !.error = "update"]

(* cursor.execute raises in the loop: the exception leaves update_database *)
(* and process, line 409 is not reached. *)
AbortUpdate(s) == [s EXCEPT !.error = "update"]

(* db.close() in cleanup *)
CloseTx(s) == [s EXCEPT !.pending = s.durable]

----------------------------------------------------------------------------
(* main.py, the call-billing report script *)

NoReport ==
    [today |-> [y |-> 0, m |-> 0, d |-> 0], call_history |-> <<>>, params |-> <<>>,
     rows |-> <<>>, year_month_str |-> "", files |-> {}]

(* Python truthiness of an int-or-None option value. *)
Given(v) == v # NULL /\ v # 0

(* get_last_month (lines 50-65) *)
GetLastMonth(args, today) ==
    IF Given(args.year) /\ Given(args.month)
    THEN <<args.year, args.month>>
    ELSE LET last_month == MinusOneDay(ReplaceDay1(today))
         IN  <<last_month.y, last_month.m>>

(* f"{year}{month:02d}" (line 284) *)
YearMonthStr(year, month) ==
    ToString(year) \o (IF month >= 0 /\ month < 10 THEN "0" ELSE "") \o ToString(month)

(* The WHERE clause on call_history.start (lines 240-241): from the first *)
(* second to the last second of the month the parameters name.  With a    *)
(* NULL parameter, or a month STR_TO_DATE or LAST_DAY cannot take, a      *)
(* bound is NULL and no row qualifies. *)
StartInMonth(row, params) ==
    /\ params[1] # NULL
    /\ params[2] # NULL
    /\ params[2] \in 1..12
    /\ row.start.y = params[1]
    /\ row.start.m = params[2]

(* The call query run with the parameters of line 258. *)
CallQuery(call_history, params) ==
    SelectSeq(call_history, LAMBDA row : StartInMonth(row, params))

(* The report files of lines 287-288: one per reseller among the rows,    *)
(* named by year_month_str and the reseller's name. *)
ReportFiles(rows, year_month_str) ==
    {[year_month_str |-> year_month_str, reseller_name |-> rows[i].reseller_name] :
        i \in 1..Len(rows)}

----------------------------------------------------------------------------
(* Bounds and input sets *)

(* The longest list of freely chosen rows of channel_did. *)
MaxLen == 2

Digit(n) == n % 10

RECURSIVE DigitsOf(_)
DigitsOf(n) == IF n < 10 THEN <<n>> ELSE Append(DigitsOf(n \div 10), Digit(n))

CustomerTypes == {"CLIENT", "RESELLER", "CARRIER"}

ReportDay == [y |-> 2024, m |-> 4, d |-> 10]

Before == [y |-> 2024, m |-> 1, d |-> 15, hh |-> 9]
After == [y |-> 2024, m |-> 5, d |-> 1, hh |-> 0]
PriorMonth == [y |-> 2024, m |-> 3, d |-> 15, hh |-> 23]
SameMonth == [y |-> 2024, m |-> 4, d |-> 2, hh |-> 7]

(* (cr_date, mod_date) of a row *)
RowDates == {<<Before, NoDate>>, <<Before, PriorMonth>>, <<After, SameMonth>>}

(* (client_id, reseller_id) of a row *)
RowOwners == {<<1, 2>>, <<2, NULL>>, <<3, 1>>}

FreeDids == {<<9>>, <<1, 0>>}

Row(did, owners, dates) ==
    [did |-> did, client_id |-> owners[1], reseller_id |-> owners[2],
     cr_date |-> dates[1], mod_date |-> dates[2],
     E164_client_product |-> None, E164_reseller_product |-> None]

FreeRows == {Row(d, o, t) : d \in FreeDids, o \in RowOwners, t \in RowDates}

(* Rows whose number is written with a leading zero. *)
ZeroRows == {Row(<<0, 9>>, o, t) : o \in RowOwners, t \in RowDates}

RECURSIVE SeqsUpTo(_, _)
SeqsUpTo(S, n) ==
    IF n = 0 THEN {<<>>}
    ELSE LET shorter == SeqsUpTo(S, n - 1)
         IN  shorter \cup {Append(s, x) : s \in {t \in shorter : Len(t) = n - 1}, x \in S}

(* A bulk of consecutive numbers of one owner: (first number, length). *)
SmallBulks == {<<10, 10>>, <<11, 10>>, <<10, 9>>, <<100, 10>>}
BigBulks == {<<100, 100>>, <<100, 99>>}

BulkRowsWith(b, owners, dates) == [i \in 1..b[2] |-> Row(DigitsOf(b[1] + i - 1), owners, dates)]

BulkRows(b) == BulkRowsWith(b, <<1, 2>>, <<Before, PriorMonth>>)

(* The numbers "09", "9" and "10" of one owner, stored in any order. *)
ZeroTriples ==
    {[i \in 1..3 |-> <<Row(<<0, 9>>, o, t), Row(<<9>>, o, t), Row(<<1, 0>>, o, t)>>[p[i]]] :
        o \in RowOwners, t \in RowDates, p \in Permutations(1..3)}

(* The bulk 10..19 together with the number "019" of the same owner,       *)
(* stored after or before it. *)
VariantBulks ==
    LET variant == Row(<<0, 1, 9>>, <<1, 2>>, <<Before, PriorMonth>>)
    IN  {BulkRows(<<10, 10>>) \o <<variant>>, <<variant>> \o BulkRows(<<10, 10>>)}

(* The tables channel_did of the model: up to MaxLen free rows; a row with *)
(* a leading zero alone, with one free row or with "9" and "10"; a bulk    *)
(* alone; a small bulk with one more row stored before or after it; the    *)
(* bulk 10..19 with "019". *)
Inventories ==
    SeqsUpTo(FreeRows, MaxLen)
    \cup {<<z>> : z \in ZeroRows}
    \cup ZeroTriples
    \cup {<<z, r>> : z \in ZeroRows, r \in FreeRows}
    \cup {<<r, z>> : z \in ZeroRows, r \in FreeRows}
    \cup {BulkRows(b) : b \in SmallBulks \cup BigBulks}
    \cup {<<r>> \o BulkRows(b) : r \in FreeRows \cup ZeroRows, b \in SmallBulks}
    \cup {BulkRows(b) \o <<r>> : r \in FreeRows \cup ZeroRows, b \in SmallBulks}
    \cup VariantBulks

Rule(id, code, prefix, suffix, len, name, setup, mrc, reseller) ==
    [E164_product_id |-> id, E164_product_code |-> code,
     did_map |-> [prefix |-> prefix, suffix |-> suffix, len |-> len],
     product_name |-> name, billing_cost_setup |-> setup, billing_cost_mrc |-> mrc,
     reseller_id |-> reseller]

Price(id, code, name, setup, mrc, reseller) ==
    [E164_product_id |-> id, E164_product_code |-> code, did_map |-> NoMap,
     product_name |-> name, billing_cost_setup |-> setup, billing_cost_mrc |-> mrc,
     reseller_id |-> reseller]

(* Rules on the last digits, a catch-all last; the rule rows are the       *)
(* global price rows. *)
CatalogSuffix ==
    << Rule(1, "AU-DID-100", <<>>, <<0, 0>>, 0, "100 Block", 50, 20, NULL),
       Rule(2, "AU-DID-10", <<>>, <<0>>, 0, "10 Block", 30, 10, NULL),
       Rule(3, "AU-DID-1", <<>>, <<>>, 0, "Single", 5, 2, NULL),
       Price(3, "AU-DID-1", "Single", 4, NULL, 1),
       Price(2, "AU-DID-10", "10 Block", 25, 8, 2) >>

(* Rules on prefix and exact length; numbers starting with 0 match none. *)
(* The rule rows belong to reseller 9. *)
CatalogPrefix ==
    << Rule(11, "AU-DID-10", <<1>>, <<>>, 2, "10 Block", 30, 10, 9),
       Rule(12, "AU-DID-100", <<1>>, <<>>, 3, "100 Block", 50, 20, 9),
       Rule(13, "AU-DID-1", <<>>, <<>>, 1, "Single", 5, 2, 9),
       Price(13, "AU-DID-1", "Single", 3, 1, NULL),
       Price(11, "AU-DID-10", "10 Block", 7, 6, 2),
       Price(11, "AU-DID-10", "10 Block", NULL, 9, NULL) >>

Catalogs == {CatalogSuffix, CatalogPrefix}

NoCall == [op |-> "none"]

(* Report days and modification times around month ends, a leap day and a  *)
(* year boundary. *)
ReportDays ==
    {[y |-> 2024, m |-> 4, d |-> 10], [y |-> 2024, m |-> 1, d |-> 5],
     [y |-> 2024, m |-> 1, d |-> 1], [y |-> 2024, m |-> 3, d |-> 1],
     [y |-> 2024, m |-> 3, d |-> 31], [y |-> 2024, m |-> 2, d |-> 29]}

ModMonths == {<<2023, 11>>, <<2023, 12>>, <<2024, 1>>, <<2024, 2>>, <<2024, 3>>,
              <<2024, 4>>, <<2024, 5>>}

ModTimes ==
    {[y |-> ym[1], m |-> ym[2], d |-> d, hh |-> hh] :
        ym \in ModMonths, d \in {1, 15, 28}, hh \in {0, 23}}
    \cup {[y |-> ym[1], m |-> ym[2], d |-> DaysInMonth(ym[1], ym[2]), hh |-> 12] : ym \in ModMonths}

(* Ten consecutive numbers, the first modified at one time and the others *)
(* at another. *)
MixedTimes == {NoDate, PriorMonth, SameMonth}

MixedBulks ==
    {[i \in 1..10 |-> Row(DigitsOf(9 + i), <<1, 2>>, <<NoDate, IF i = 1 THEN t[1] ELSE t[2]>>)] :
        t \in {u \in MixedTimes \X MixedTimes : u[1] # u[2]}}

(* One number, or ten consecutive ones, modified at one time; ten         *)
(* consecutive ones modified at two times. *)
DatedInventories ==
    {<<Row(<<9>>, <<1, 2>>, <<NoDate, t>>)>> : t \in ModTimes \cup {NoDate}}
    \cup {BulkRowsWith(<<10, 10>>, <<1, 2>>, <<NoDate, t>>) : t \in ModTimes \cup {NoDate}}
    \cup MixedBulks

(* The price rows of one product: its rule row, of another reseller or     *)
(* global, then at most one row of reseller 1 and at most one more global  *)
(* row, each with either cost NULL or set. *)
RuleRows == {Rule(1, "AU-DID-1", <<>>, <<>>, 0, "Single", 50, 20, r) : r \in {9, NULL}}
OwnerRows == {Price(1, "AU-DID-1", "Single", su, mrc, 1) : su \in {NULL, 10}, mrc \in {NULL, 5}}
GlobalRows == {Price(1, "AU-DID-1", "Single", su, mrc, NULL) : su \in {NULL, 30}, mrc \in {NULL, 7}}

PricingTables ==
    {<<r>> \o o \o g : r \in RuleRows, o \in {<<>>} \cup {<<x>> : x \in OwnerRows},
                        g \in {<<>>} \cup {<<x>> : x \in GlobalRows}}

(* Rows created on and right after the cutoff day, or with no creation    *)
(* time, for the numbers "9", "09" and "10" of one owner. *)
CutoffLen == 3
OnCutoff == [y |-> 2024, m |-> 4, d |-> 10, hh |-> 23]
DayAfter == [y |-> 2024, m |-> 4, d |-> 11, hh |-> 0]

CutoffRows ==
    {Row(d, <<1, 2>>, <<c, NoDate>>) :
        d \in {<<9>>, <<0, 9>>, <<1, 0>>}, c \in {OnCutoff, DayAfter, NoDate}}

CutoffInventories == SeqsUpTo(CutoffRows, CutoffLen)

(* Catalogs of three rule rows out of five, in any table order; two of    *)
(* the rows carry the same product code. *)
RulePool ==
    {Rule(1, "AU-DID-100", <<>>, <<0, 0>>, 0, "100 Block", 50, 20, NULL),
     Rule(2, "AU-DID-10", <<>>, <<0>>, 0, "10 Block", 30, 10, NULL),
     Rule(3, "AU-DID-1", <<>>, <<>>, 0, "Single", 5, 2, NULL),
     Rule(4, "AU-DID-1", <<1>>, <<>>, 2, "Single", 6, 3, NULL),
     Rule(5, "AU-DID-10", <<1>>, <<>>, 2, "10 Block", 30, 10, NULL)}

RuleCatalogs ==
    {t \in RulePool \X RulePool \X RulePool : t[1] # t[2] /\ t[1] # t[3] /\ t[2] # t[3]}

(* The numbers of up to ClassifyLen digits out of 0, 1 and 9. *)
ClassifyLen == 3
CallDids == SeqsUpTo({0, 1, 9}, ClassifyLen) \ {<<>>}

(* Up to WriteLen rows with the numbers "9", "09" and "10" of two owners. *)
WriteLen == 2

WriteRows ==
    {Row(d, o, <<Before, NoDate>>) : d \in {<<9>>, <<0, 9>>, <<1, 0>>}, o \in {<<1, 2>>, <<3, 1>>}}

WriteInventories == SeqsUpTo(WriteRows, WriteLen)

CallCodes == {"AU-DID-1", "AU-DID-5"}
CallOwners == {1, 2}

----------------------------------------------------------------------------
(* main(): one run of the program *)

Init ==
    /\ pc = "start"
    /\ customer_type \in CustomerTypes
    /\ report_date = ReportDay
    /\ cutoff_date = report_date
    /\ E164_products \in Catalogs
    /\ channel_did \in Inventories
    /\ db_open = FALSE
    /\ product_mappings = <<>>
    /\ dids = <<>>
    /\ results = <<>>
    /\ runs = <<>>
    /\ run_items = <<>>
    /\ skipped = <<>>
    /\ call = NoCall
    /\ tx = IdleTx(channel_did)
    /\ conn = NoConn
    /\ argv = [customer_type |-> customer_type]
    /\ report = NoReport

(* DIDHandler.__init__: connect and load the product mappings. *)
Connect ==
    /\ pc = "start"
    /\ ~LoadRaises(E164_products)
    /\ db_open' = TRUE
    /\ conn' = [conn EXCEPT !.opens = @ + 1]
    /\ product_mappings' = LoadProductMappings(E164_products)
    /\ pc' = "connected"
    /\ UNCHANGED <<customer_type, cutoff_date, report_date, E164_products, channel_did,
                   dids, results, runs, run_items, skipped, call, tx, argv, report>>

(* DIDHandler.__init__ when load_product_mappings raises: the connection   *)
(* is open, the exception leaves __init__ and main (line 572 is outside    *)
(* the try), and the program ends. *)
ConnectFails ==
    /\ pc = "start"
    /\ LoadRaises(E164_products)
    /\ db_open' = TRUE
    /\ conn' = [conn EXCEPT !.opens = @ + 1]
    /\ pc' = "crashed"
    /\ UNCHANGED <<customer_type, cutoff_date, report_date, E164_products, channel_did,
                   product_mappings, dids, results, runs, run_items, skipped, call, tx, argv, report>>

(* DIDHandler.process: fetch, identify_ranges, the CARRIER re-sort and     *)
(* update_database with its commit.  It can be called again on the same    *)
(* handler. *)
Process ==
    /\ pc \in {"connected", "processed"}
    /\ \E reversed \in BOOLEAN :
       \E fetched \in {BaseQuery(reversed)} :
       \E st \in {IdentifyRanges(fetched, report_date)} :
       \E res \in {IF customer_type = "CARRIER" THEN SortedResults(st.ranges) ELSE st.ranges} :
         /\ dids' = fetched
         /\ runs' = st.runs
         /\ run_items' = st.run_items
         /\ skipped' = st.skipped
         /\ results' = res
         /\ \E updated \in {UpdateDatabase(channel_did, res)} :
              /\ channel_did' = updated
              /\ tx' = [pending |-> updated, before |-> channel_did, next |-> Len(res) + 1,
                        writes |-> Len(res), commits |-> 1, error |-> "none"]
    /\ pc' = "processed"
    /\ UNCHANGED <<customer_type, cutoff_date, report_date, E164_products, db_open,
                   product_mappings, call, conn, argv, report>>

(* The exports and print_results of main: they only read the results;    *)
(* without --csv and --json the results are printed with their summary.    *)
Export ==
    /\ pc = "processed"
    /\ pc' = "exported"
    /\ \E printed \in BOOLEAN :
         call' = IF printed
                 THEN [op |-> "generate_summary", result |-> GenerateSummary(results)]
                 ELSE call
    /\ UNCHANGED <<customer_type, cutoff_date, report_date, E164_products, channel_did,
                   db_open, product_mappings, dids, results, runs, run_items, skipped, tx, conn, argv, report>>

(* DIDHandler.cleanup, in the finally of main: it also runs when process  *)
(* or an export raised. *)
Cleanup ==
    /\ pc \in {"processed", "exported", "failed"}
    /\ db_open' = FALSE
    /\ tx' = TxOf(CloseTx(Session))
    /\ conn' = [conn EXCEPT !.closes = @ + 1]
    /\ pc' = "closed"
    /\ UNCHANGED <<customer_type, cutoff_date, report_date, E164_products, channel_did,
                   product_mappings, dids, results, runs, run_items, skipped, call, argv, report>>

(* An export of main raises (the file cannot be written): the finally      *)
(* clause is next. *)
ExportFails ==
    /\ pc = "processed"
    /\ pc' = "failed"
    /\ UNCHANGED <<customer_type, cutoff_date, report_date, E164_products, channel_did,
                   db_open, product_mappings, dids, results, runs, run_items, skipped, call,
                   tx, conn, argv, report>>

Next == Connect \/ Process \/ Export \/ Cleanup

Spec == Init /\ [][Next]_vars

----------------------------------------------------------------------------
(* The same run on one number or one block, over many dates *)

InitDates ==
    /\ pc = "start"
    /\ customer_type \in CustomerTypes
    /\ report_date \in ReportDays
    /\ cutoff_date = report_date
    /\ E164_products \in Catalogs
    /\ channel_did \in DatedInventories
    /\ db_open = FALSE
    /\ product_mappings = <<>>
    /\ dids = <<>>
    /\ results = <<>>
    /\ runs = <<>>
    /\ run_items = <<>>
    /\ skipped = <<>>
    /\ call = NoCall
    /\ tx = IdleTx(channel_did)
    /\ conn = NoConn
    /\ argv = [customer_type |-> customer_type]
    /\ report = NoReport

SpecDates == InitDates /\ [][Next]_vars

----------------------------------------------------------------------------
(* The same run on a few rows created around the cutoff day *)

InitCutoff ==
    /\ pc = "start"
    /\ customer_type = "RESELLER"
    /\ report_date = ReportDay
    /\ cutoff_date = report_date
    /\ E164_products \in Catalogs
    /\ channel_did \in CutoffInventories
    /\ db_open = FALSE
    /\ product_mappings = <<>>
    /\ dids = <<>>
    /\ results = <<>>
    /\ runs = <<>>
    /\ run_items = <<>>
    /\ skipped = <<>>
    /\ call = NoCall
    /\ tx = IdleTx(channel_did)
    /\ conn = NoConn
    /\ argv = [customer_type |-> customer_type]
    /\ report = NoReport

SpecCutoff == InitCutoff /\ [][Next]_vars

----------------------------------------------------------------------------
(* process() statement by statement, with the exceptions a query can raise *)

InitWrite ==
    /\ pc = "start"
    /\ customer_type \in CustomerTypes
    /\ report_date = ReportDay
    /\ cutoff_date = report_date
    /\ E164_products \in Catalogs
    /\ channel_did \in WriteInventories
    /\ db_open = FALSE
    /\ product_mappings = <<>>
    /\ dids = <<>>
    /\ results = <<>>
    /\ runs = <<>>
    /\ run_items = <<>>
    /\ skipped = <<>>
    /\ call = NoCall
    /\ tx = IdleTx(channel_did)
    /\ conn = NoConn
    /\ argv = [customer_type |-> customer_type]
    /\ report = NoReport

(* Lines 372-377 of process: the fetch, identify_ranges (classification    *)
(* and pricing of every record) and the CARRIER re-sort. *)
Classify ==
    /\ pc \in {"connected", "processed"}
    /\ \E reversed \in BOOLEAN :
       \E fetched \in {BaseQuery(reversed)} :
       \E st \in {IdentifyRanges(fetched, report_date)} :
         /\ dids' = fetched
         /\ runs' = st.runs
         /\ run_items' = st.run_items
         /\ skipped' = st.skipped
         /\ results' = IF customer_type = "CARRIER" THEN SortedResults(st.ranges) ELSE st.ranges
    /\ tx' = IdleTx(channel_did)
    /\ pc' = "updating"
    /\ UNCHANGED <<customer_type, cutoff_date, report_date, E164_products, channel_did,
                   db_open, product_mappings, call, conn, argv, report>>

(* A query of lines 372-374 raises (the fetch, a classification or a       *)
(* pricing query), or int(did) does: process is left before line 379. *)
ClassifyFails ==
    /\ pc \in {"connected", "processed"}
    /\ tx' = [IdleTx(channel_did) EXCEPT !.error = "classify"]
    /\ pc' = "failed"
    /\ UNCHANGED <<customer_type, cutoff_date, report_date, E164_products, channel_did,
                   db_open, product_mappings, dids, results, runs, run_items, skipped, call, conn, argv, report>>

(* The next UPDATE of update_database. *)
UpdateOne ==
    /\ pc = "updating"
    /\ tx.next <= Len(results)
    /\ \E s \in {ExecuteUpdate(Session, results[tx.next])} :
         /\ channel_did' = s.durable
         /\ tx' = TxOf(s)
    /\ UNCHANGED <<pc, customer_type, cutoff_date, report_date, E164_products,
                   db_open, product_mappings, dids, results, runs, run_items, skipped, call, conn, argv, report>>

(* The next UPDATE raises. *)
UpdateFails ==
    /\ pc = "updating"
    /\ tx.next <= Len(results)
    /\ \E s \in {AbortUpdate(Session)} :
         /\ channel_did' = s.durable
         /\ tx' = TxOf(s)
    /\ pc' = "failed"
    /\ UNCHANGED <<customer_type, cutoff_date, report_date, E164_products,
                   db_open, product_mappings, dids, results, runs, run_items, skipped, call, conn, argv, report>>

(* The commit after the loop. *)
Commit ==
    /\ pc = "updating"
    /\ tx.next > Len(results)
    /\ \E s \in {CommitTx(Session)} :
         /\ channel_did' = s.durable
         /\ tx' = TxOf(s)
    /\ pc' = "processed"
    /\ UNCHANGED <<customer_type, cutoff_date, report_date, E164_products,
                   db_open, product_mappings, dids, results, runs, run_items, skipped, call, conn, argv, report>>

NextWrite ==
    Connect \/ Classify \/ ClassifyFails \/ UpdateOne \/ UpdateFails \/ Commit
        \/ Export \/ Cleanup

SpecWrite == InitWrite /\ [][NextWrite]_vars

----------------------------------------------------------------------------
(* main() from the command line on *)

(* A rule row whose costs are NULL. *)
CatalogNullCost ==
    << Rule(3, "AU-DID-1", <<>>, <<>>, 0, "Single", 5, 2, NULL),
       Rule(4, "AU-DID-5", <<>>, <<5>>, 0, "5 Block", NULL, NULL, NULL) >>

(* What --customer-type can be on a command line: absent, one of the       *)
(* choices, or something else. *)
CustomerTypeOptions == CustomerTypes \cup {None, "client"}

(* The mutated parser defaults to CLIENT. *)
DefaultCustomerType_Client == "CLIENT"

(* add_argument("--customer-type", ..., default='RESELLER') *)
DefaultCustomerType == "RESELLER"

InitMain ==
    /\ pc = "parsing"
    /\ argv \in [customer_type : CustomerTypeOptions]
    /\ customer_type = None
    /\ report_date = ReportDay
    /\ cutoff_date = report_date
    /\ E164_products \in Catalogs \cup {CatalogNullCost}
    /\ channel_did \in WriteInventories
    /\ db_open = FALSE
    /\ product_mappings = <<>>
    /\ dids = <<>>
    /\ results = <<>>
    /\ runs = <<>>
    /\ run_items = <<>>
    /\ skipped = <<>>
    /\ call = NoCall
    /\ tx = IdleTx(channel_did)
    /\ conn = NoConn
    /\ report = NoReport

(* parser.parse_args(): the option's value when it is one of the choices,  *)
(* the default when the option is absent. *)
ParseArgs ==
    /\ pc = "parsing"
    /\ argv.customer_type \in CustomerTypes \cup {None}
    /\ customer_type' = IF argv.customer_type = None THEN DefaultCustomerType
                                                     ELSE argv.customer_type
    /\ pc' = "start"
    /\ UNCHANGED <<cutoff_date, report_date, E164_products, channel_did, db_open,
                   product_mappings, dids, results, runs, run_items, skipped, call, tx,
                   conn, argv, report>>

(* parser.parse_args() on a value outside the choices: usage error, exit.  *)
ParseArgsFails ==
    /\ pc = "parsing"
    /\ argv.customer_type \notin CustomerTypes \cup {None}
    /\ pc' = "usage"
    /\ UNCHANGED <<customer_type, cutoff_date, report_date, E164_products, channel_did,
                   db_open, product_mappings, dids, results, runs, run_items, skipped, call,
                   tx, conn, argv, report>>

NextMain ==
    ParseArgs \/ ParseArgsFails \/ Connect \/ ConnectFails \/ Classify \/ ClassifyFails
        \/ UpdateOne \/ UpdateFails \/ Commit \/ Export \/ ExportFails \/ Cleanup

SpecMain == InitMain /\ [][NextMain]_vars

----------------------------------------------------------------------------
(* main.py run from the command line *)

YearOptions == {NULL, 2023, 2024}
MonthOptions == {NULL, 0, 3, 12}

CallRow(reseller_name, y, m, d) ==
    [reseller_name |-> reseller_name, start |-> [y |-> y, m |-> m, d |-> d]]

(* Tables call_history: any of three answered calls, in storage order. *)
CallTables ==
    {SelectSeq(<<CallRow("Acme", 2023, 12, 31), CallRow("Acme", 2024, 3, 1),
                 CallRow("Bolt", 2024, 3, 31)>>, LAMBDA row : row \in kept) :
        kept \in SUBSET {CallRow("Acme", 2023, 12, 31), CallRow("Acme", 2024, 3, 1),
                         CallRow("Bolt", 2024, 3, 31)}}

InitReport ==
    /\ pc = "parsing"
    /\ argv \in [year : YearOptions, month : MonthOptions]
    /\ \E today \in ReportDays, call_history \in CallTables :
         report = [NoReport EXCEPT !.today = today, !.call_history = call_history]
    /\ customer_type = None
    /\ report_date = ReportDay
    /\ cutoff_date = report_date
    /\ E164_products = <<>>
    /\ channel_did = <<>>
    /\ db_open = FALSE
    /\ product_mappings = <<>>
    /\ dids = <<>>
    /\ results = <<>>
    /\ runs = <<>>
    /\ run_items = <<>>
    /\ skipped = <<>>
    /\ call = NoCall
    /\ tx = IdleTx(channel_did)
    /\ conn = NoConn

(* Lines 67-280: parse_args, connect, the call query with the parameters  *)
(* (args.year, args.month, args.year, args.month), fetchall. *)
SelectCalls ==
    /\ pc = "parsing"
    /\ \E params \in {<<argv.year, argv.month>>} :
         report' = [report EXCEPT !.params = params,
                                  !.rows = CallQuery(report.call_history, params)]
    /\ pc' = "selected"
    /\ UNCHANGED <<customer_type, cutoff_date, report_date, E164_products, channel_did,
                   db_open, product_mappings, dids, results, runs, run_items, skipped, call,
                   tx, conn, argv>>

(* Lines 283-486: year_month_str from get_last_month, one file per        *)
(* reseller among the rows. *)
WriteReports ==
    /\ pc = "selected"
    /\ \E ym \in {GetLastMonth(argv, report.today)} :
       \E year_month_str \in {YearMonthStr(ym[1], ym[2])} :
         report' = [report EXCEPT !.year_month_str = year_month_str,
                                  !.files = ReportFiles(report.rows, year_month_str)]
    /\ pc' = "reported"
    /\ UNCHANGED <<customer_type, cutoff_date, report_date, E164_products, channel_did,
                   db_open, product_mappings, dids, results, runs, run_items, skipped, call,
                   tx, conn, argv>>

NextReport == SelectCalls \/ WriteReports

SpecReport == InitReport /\ [][NextReport]_vars

----------------------------------------------------------------------------
(* get_product_pricing called on a constructed handler *)

InitPricing ==
    /\ pc = "connected"
    /\ customer_type = "RESELLER"
    /\ report_date = ReportDay
    /\ cutoff_date = report_date
    /\ E164_products \in PricingTables
    /\ channel_did = <<>>
    /\ db_open = TRUE
    /\ product_mappings = LoadProductMappings(E164_products)
    /\ dids = <<>>
    /\ results = <<>>
    /\ runs = <<>>
    /\ run_items = <<>>
    /\ skipped = <<>>
    /\ call = NoCall
    /\ tx = IdleTx(channel_did)
    /\ conn = OpenedConn
    /\ argv = [customer_type |-> customer_type]
    /\ report = NoReport

CallGetProductPricing ==
    /\ pc = "connected"
    /\ call = NoCall
    /\ \E product_code \in CallCodes, owner_id \in CallOwners :
         call' = [op |-> "get_product_pricing", product_code |-> product_code,
                  owner_id |-> owner_id,
                  result |-> GetProductPricing(product_code, owner_id)]
    /\ UNCHANGED <<pc, customer_type, cutoff_date, report_date, E164_products, channel_did,
                   db_open, product_mappings, dids, results, runs, run_items, skipped, tx, conn, argv, report>>

SpecPricing == InitPricing /\ [][CallGetProductPricing]_vars

----------------------------------------------------------------------------
(* determine_did_product called on a constructed handler *)

InitClassify ==
    /\ pc = "connected"
    /\ customer_type = "RESELLER"
    /\ report_date = ReportDay
    /\ cutoff_date = report_date
    /\ E164_products \in RuleCatalogs
    /\ channel_did = <<>>
    /\ db_open = TRUE
    /\ product_mappings = LoadProductMappings(E164_products)
    /\ dids = <<>>
    /\ results = <<>>
    /\ runs = <<>>
    /\ run_items = <<>>
    /\ skipped = <<>>
    /\ call = NoCall
    /\ tx = IdleTx(channel_did)
    /\ conn = OpenedConn
    /\ argv = [customer_type |-> customer_type]
    /\ report = NoReport

CallDetermineDidProduct ==
    /\ pc = "connected"
    /\ call = NoCall
    /\ \E did_str \in CallDids :
         call' = [op |-> "determine_did_product", did |-> did_str,
                  result |-> DetermineDidProduct(did_str)]
    /\ UNCHANGED <<pc, customer_type, cutoff_date, report_date, E164_products, channel_did,
                   db_open, product_mappings, dids, results, runs, run_items, skipped, tx, conn, argv, report>>

SpecClassify == InitClassify /\ [][CallDetermineDidProduct]_vars

----------------------------------------------------------------------------
(* Properties *)

Processed == pc \in {"processed", "exported", "closed"}

Count(seq, x) == Cardinality({i \in 1..Len(seq) : seq[i] = x})

RECURSIVE Flatten(_)
Flatten(ss) == IF ss = <<>> THEN <<>> ELSE Head(ss) \o Flatten(Tail(ss))

(* C1: in every run handed to process_range each member's numeric value is *)
(* one more than the previous member's, and all members have one owner.    *)
C1_RangeContiguity ==
    \A k \in 1..Len(runs) :
        /\ runs[k] # <<>>
        /\ \A i \in 1..Len(runs[k]) - 1 :
              /\ IntOf(runs[k][i + 1].did) = IntOf(runs[k][i].did) + 1
              /\ runs[k][i + 1].owner_id = runs[k][i].owner_id

(* A run of several members was closed by a record that did not extend it. *)
C1_Witness ==
    /\ Processed
    /\ Len(runs) >= 2
    /\ \E k \in 1..Len(runs) : Len(runs[k]) >= 2

(* C2: the members of all runs together with the skipped records are the  *)
(* input records, each as often as the input holds it.                     *)
C2_PartitionComplete ==
    Processed =>
        LET flat == Flatten(runs) \o skipped
        IN  /\ Len(flat) = Len(dids)
            /\ \A i \in 1..Len(dids) : Count(flat, dids[i]) = Count(dids, dids[i])

(* Some record was skipped and others went to a run of several members. *)
C2_Witness ==
    /\ Processed
    /\ skipped # <<>>
    /\ \E k \in 1..Len(runs) : Len(runs[k]) >= 2

(* The longest input whose permutations are all tried. *)
PermLen == 3

Permuted(seq, p) == [i \in 1..Len(seq) |-> seq[p[i]]]

(* C3: permuting the input of identify_ranges in any way yields the same   *)
(* sequence of runs and the same output items, also when two records share *)
(* (owner_id, numeric value) and differ in other fields.                   *)
C3_Determinism ==
    (Processed /\ Len(dids) <= PermLen) =>
        \A p \in Permutations(1..Len(dids)) :
            LET out == IdentifyRanges(Permuted(dids, p), report_date)
            IN  /\ out.runs = runs
                /\ out.ranges = Flatten(run_items)

(* The price rows of a product that belong to an owner, and the global    *)
(* ones; a row counts when one of its costs is set. *)
Priced(i) ==
    E164_products[i].billing_cost_setup # NULL \/ E164_products[i].billing_cost_mrc # NULL

OwnerTier(product_code, owner_id) ==
    {i \in PricingRows(Mapping(product_code).id) :
        E164_products[i].reseller_id = owner_id /\ Priced(i)}

GlobalTier(product_code) ==
    {i \in PricingRows(Mapping(product_code).id) :
        E164_products[i].reseller_id = NULL /\ Priced(i)}

TierPairs(rows) ==
    {<<E164_products[i].billing_cost_setup, E164_products[i].billing_cost_mrc>> : i \in rows}

(* C4: get_product_pricing returns the pair of exactly one tier: the       *)
(* owner's row if there is one, otherwise the global row if there is one,  *)
(* otherwise the rule's default pricing; never one cost from one tier and  *)
(* the other cost from another.                                            *)
C4_SingleTier ==
    (call.op = "get_product_pricing" /\ InMappings(call.product_code)) =>
        LET own == OwnerTier(call.product_code, call.owner_id)
            glob == GlobalTier(call.product_code)
            rule == Mapping(call.product_code)
        IN  IF own # {} THEN call.result \in TierPairs(own)
            ELSE IF glob # {} THEN call.result \in TierPairs(glob)
            ELSE call.result = <<rule.default_setup, rule.default_mrc>>

(* The entries of run k that item it was priced from: the first entry for  *)
(* a block item, the entry of the same number otherwise. *)
Sources(k, it) ==
    IF it.range_start # NoDid THEN {runs[k][1]}
    ELSE {runs[k][i] : i \in {i \in 1..Len(runs[k]) : runs[k][i].did = it.did}}

Sourced ==
    UNION {UNION {{<<run_items[k][j], e>> : e \in Sources(k, run_items[k][j])} :
                    j \in 1..Len(run_items[k])} : k \in 1..Len(run_items)}

(* The calendar month of mod_date is the one just before report_month's. *)
InPriorMonth(mod_date, report_month) ==
    IF report_month.m = 1
    THEN mod_date.y = report_month.y - 1 /\ mod_date.m = 12
    ELSE mod_date.y = report_month.y /\ mod_date.m = report_month.m - 1

(* C5: should_charge_setup is true whenever the modification time falls on *)
(* any day of the calendar month just before the report month, also across *)
(* a year boundary, and the item's setup is then the resolved setup cost.  *)
C5_SetupInPriorMonth ==
    Processed =>
        \A p \in Sourced :
            (p[2].mod_date # NoDate /\ InPriorMonth(p[2].mod_date, report_date)) =>
                /\ ShouldChargeSetup(p[2].mod_date, report_date)
                /\ p[1].setup = GetProductPricing(p[1].did_product, p[1].owner_id)[1]

(* C6: a number modified in any month other than the one just before the   *)
(* report month has should_charge_setup false and an item with setup 0.    *)
C6_NoSetupOtherMonths ==
    Processed =>
        \A p \in Sourced :
            (p[2].mod_date # NoDate /\ ~InPriorMonth(p[2].mod_date, report_date)) =>
                /\ ~ShouldChargeSetup(p[2].mod_date, report_date)
                /\ p[1].setup = 0

C6_Witness ==
    /\ Processed
    /\ \E p \in Sourced :
         /\ p[2].mod_date # NoDate
         /\ ReplaceDay1(DateOf(p[2].mod_date)) = ReplaceDay1(report_date)
         /\ GetProductPricing(p[1].did_product, p[1].owner_id)[1] # 0
         /\ p[1].setup = 0

(* C7: a record without a modification time has should_charge_setup false  *)
(* whatever the report period, and its item has setup 0.                   *)
C7_NoSetupWithoutModDate ==
    Processed =>
        \A p \in Sourced :
            p[2].mod_date = NoDate =>
                /\ ~ShouldChargeSetup(p[2].mod_date, report_date)
                /\ p[1].setup = 0

C7_Witness ==
    /\ Processed
    /\ \E p \in Sourced :
         /\ p[2].mod_date = NoDate
         /\ GetProductPricing(p[1].did_product, p[1].owner_id)[1] # 0
         /\ p[1].setup = 0

(* C8: every item's mrc is the recurring cost get_product_pricing returns  *)
(* for its product and owner, whatever the modification time and report    *)
(* period; its setup is 0 or the full resolved setup cost.                 *)
C8_MrcInFull ==
    Processed =>
        \A i \in 1..Len(results) :
            LET pricing == GetProductPricing(results[i].did_product, results[i].owner_id)
            IN  /\ results[i].mrc = pricing[2]
                /\ results[i].setup \in {0, pricing[1]}

C8_Witness ==
    /\ Processed
    /\ \E p \in Sourced :
         /\ p[2].mod_date # NoDate
         /\ ~InPriorMonth(p[2].mod_date, report_date)
         /\ p[1].range_start = NoDid
         /\ p[1].mrc # 0
         /\ p[1].mrc = GetProductPricing(p[1].did_product, p[1].owner_id)[2]

FirstNumber(k) == IntOf(runs[k][1].did)

(* Run k is one block item spanning the run. *)
OneBlock(k) ==
    /\ Len(run_items[k]) = 1
    /\ run_items[k][1].range_start = runs[k][1].did
    /\ run_items[k][1].range_end = runs[k][Len(runs[k])].did

(* Run k is long enough and starts on the 100 or 10 boundary. *)
Aligned(k) ==
    \/ Len(runs[k]) >= 100 /\ FirstNumber(k) % 100 = 0
    \/ Len(runs[k]) >= 10 /\ FirstNumber(k) % 10 = 0

Classifiable(k) == SelectSeq(runs[k], LAMBDA e : ~Falsy(DetermineDidProduct(e.did)))

(* C10: a run shorter than the block threshold, or whose first number is   *)
(* not on the 10/100 boundary, is never a block: it yields one item per    *)
(* classifiable member, each with range_start and range_end null.          *)
C10_UnalignedRunIsSingles ==
    Processed =>
        \A k \in 1..Len(runs) :
            ~Aligned(k) =>
                /\ Len(run_items[k]) = Len(Classifiable(k))
                /\ \A j \in 1..Len(run_items[k]) :
                     /\ run_items[k][j].range_start = NoDid
                     /\ run_items[k][j].range_end = NoDid
                     /\ j <= Len(Classifiable(k)) => run_items[k][j].did = Classifiable(k)[j].did

(* Record e is in the output: as a single item of its number, or inside    *)
(* the range of a block item of its owner. *)
Represented(e) ==
    \E i \in 1..Len(results) :
        /\ results[i].owner_id = e.owner_id
        /\ IF results[i].range_start # NoDid
           THEN /\ IntOf(e.did) >= IntOf(results[i].range_start)
                /\ IntOf(e.did) <= IntOf(results[i].range_end)
           ELSE results[i].did = e.did

(* The records the scan kept, in scan order. *)
Scanned == Flatten(runs)

(* C11: a number that matches no rule never appears in the output and does *)
(* not stop the run: every record scanned after it that matches a rule is  *)
(* still classified into the output.                                       *)
C11_UnclassifiableDoesNotStopRun ==
    Processed =>
        /\ \A i \in 1..Len(results) : ~Falsy(DetermineDidProduct(results[i].did))
        /\ LET unmatched == {a \in 1..Len(Scanned) : Falsy(DetermineDidProduct(Scanned[a].did))}
           IN  \A b \in 1..Len(Scanned) :
                   ((\E a \in unmatched : a < b) /\ b \notin unmatched) => Represented(Scanned[b])

(* The scanned records that match no product rule. *)
Unmatched == {a \in 1..Len(Scanned) : Falsy(DetermineDidProduct(Scanned[a].did))}

(* C12: after a run the report carries a skipped count equal to the number *)
(* of non-future-dated records that matched no product rule.               *)
C12_SkippedCountReported ==
    (call.op = "generate_summary" /\ Unmatched # {}) =>
        /\ "skipped" \in DOMAIN call.result
        /\ call.result.skipped = Cardinality(Unmatched)

(* C13: with customer type CARRIER the list process returns is ordered by *)
(* (owner_id, numeric value of did) ascending.                             *)
C13_CarrierResultsOrdered ==
    (Processed /\ customer_type = "CARRIER") =>
        \A i \in 1..(Len(results) - 1) :
            \/ results[i].owner_id < results[i + 1].owner_id
            \/ /\ results[i].owner_id = results[i + 1].owner_id
               /\ IntOf(results[i].did) <= IntOf(results[i + 1].did)

C13_Witness ==
    /\ Processed
    /\ customer_type = "CARRIER"
    /\ \E i \in 1..(Len(results) - 1) :
         /\ results[i].owner_id < results[i + 1].owner_id
         /\ IntOf(results[i].did) > IntOf(results[i + 1].did)

ItemSet(res) == {res[i] : i \in 1..Len(res)}

(* C14: a second run of process on the same inventory, catalog, cutoff and *)
(* report period returns the same items as the first and leaves the        *)
(* product annotations as the first run left them.                         *)
C14_RerunIdempotent ==
    [][(pc = "processed" /\ pc' = "processed") =>
           /\ ItemSet(results') = ItemSet(results)
           /\ channel_did' = channel_did]_vars

(* Record e was created on a day after the cutoff day. *)
CreatedAfterCutoff(e) ==
    /\ e.cr_date # NoDate
    /\ \/ e.cr_date.y > cutoff_date.y
       \/ e.cr_date.y = cutoff_date.y /\ e.cr_date.m > cutoff_date.m
       \/ e.cr_date.y = cutoff_date.y /\ e.cr_date.m = cutoff_date.m
          /\ e.cr_date.d > cutoff_date.d

CreatedOnCutoff(e) ==
    /\ e.cr_date # NoDate
    /\ e.cr_date.y = cutoff_date.y
    /\ e.cr_date.m = cutoff_date.m
    /\ e.cr_date.d = cutoff_date.d

InSomeRun(e) == \E a \in 1..Len(Scanned) : Scanned[a] = e

(* C15: a record created after the cutoff date is in no run and yields no  *)
(* item, and the other records are grouped and classified exactly as if    *)
(* it were not in the input.                                               *)
C15_FutureDatedLeftOut ==
    Processed =>
        /\ \A a \in 1..Len(Scanned) : ~CreatedAfterCutoff(Scanned[a])
        /\ ItemSet(results) = ItemSet(Flatten(run_items))
        /\ LET without == SelectSeq(dids, LAMBDA e : ~CreatedAfterCutoff(e))
               out == IdentifyRanges(without, report_date)
           IN  /\ out.runs = runs
               /\ out.ranges = Flatten(run_items)

C15_Witness ==
    /\ Processed
    /\ Len(dids) = 3
    /\ CreatedAfterCutoff(dids[2])
    /\ Len(runs) = 1
    /\ runs[1] = <<dids[1], dids[3]>>
    /\ Len(results) = 2

(* C16, as stated: a record created on the cutoff date itself is not in    *)
(* the processing run.                                                     *)
C16_CutoffExclusive ==
    Processed => \A i \in 1..Len(dids) : CreatedOnCutoff(dids[i]) => ~InSomeRun(dids[i])

(* C16, amended: the cutoff date is an inclusive upper bound: a record     *)
(* created on the cutoff date itself is in the processing run, a record    *)
(* created on any later date is not.                                       *)
C16_CutoffInclusive ==
    Processed =>
        \A i \in 1..Len(dids) :
            /\ CreatedOnCutoff(dids[i]) => InSomeRun(dids[i])
            /\ CreatedAfterCutoff(dids[i]) => ~InSomeRun(dids[i])

C16_Witness ==
    /\ Processed
    /\ \E i \in 1..Len(dids) :
         /\ CreatedOnCutoff(dids[i])
         /\ InSomeRun(dids[i])
         /\ Represented(dids[i])
    /\ \E i \in 1..Len(dids) : dids[i].cr_date = DayAfter /\ ~InSomeRun(dids[i])

(* C17: get_product_pricing returns a pair of costs for every product and  *)
(* owner; when neither a row of the owner nor a global row yields a price  *)
(* the pair is the rule's default setup and recurring cost.                *)
C17_PricingAlwaysResolves ==
    call.op = "get_product_pricing" =>
        /\ Len(call.result) = 2
        /\ call.result[1] # NULL
        /\ call.result[2] # NULL
        /\ (/\ InMappings(call.product_code)
            /\ OwnerTier(call.product_code, call.owner_id) = {}
            /\ GlobalTier(call.product_code) = {}) =>
               call.result = <<Mapping(call.product_code).default_setup,
                               Mapping(call.product_code).default_mrc>>

C17_Witness ==
    /\ call.op = "get_product_pricing"
    /\ InMappings(call.product_code)
    /\ Len(E164_products) = 3
    /\ OwnerTier(call.product_code, call.owner_id) = {}
    /\ GlobalTier(call.product_code) = {}
    /\ call.result = <<50, 20>>

(* The mappings, by place, whose did_map matches the number. *)
MatchingRules(did_str) ==
    {i \in 1..Len(product_mappings) : DidMapMatches(product_mappings[i].did_map, did_str)}

(* C18: determine_did_product goes through the rules in one fixed order    *)
(* and returns the code of the first rule that matches the number, also    *)
(* when several rules match; it returns no product when none matches.      *)
C18_FirstMatchWins ==
    call.op = "determine_did_product" =>
        IF MatchingRules(call.did) = {} THEN call.result = None
        ELSE \E i \in MatchingRules(call.did) :
                /\ \A j \in MatchingRules(call.did) : i <= j
                /\ call.result = product_mappings[i].code

C18_Witness ==
    /\ call.op = "determine_did_product"
    /\ \E i, j \in MatchingRules(call.did) :
         /\ i < j
         /\ product_mappings[i].code # product_mappings[j].code
         /\ call.result = product_mappings[i].code

(* C19: no UPDATE is issued before every record is classified and priced; *)
(* when classification or pricing raises no UPDATE is issued at all; the   *)
(* commit happens exactly once, after the last UPDATE.                     *)
C19_WritesAfterClassification ==
    /\ tx.writes > 0 => pc \in {"updating", "processed", "exported", "failed", "closed"}
    /\ tx.writes > 0 => tx.error # "classify"
    /\ tx.error = "classify" => (tx.writes = 0 /\ tx.commits = 0 /\ channel_did = tx.before)
    /\ tx.commits <= 1
    /\ tx.commits = 1 => (tx.writes = Len(results) /\ tx.next = Len(results) + 1)
    /\ pc \in {"processed", "exported"} => tx.commits = 1

C19_Witness ==
    /\ pc = "processed"
    /\ tx.writes >= 2
    /\ tx.commits = 1
    /\ channel_did # tx.before

(* C20: when an UPDATE fails partway through update_database the run ends  *)
(* without a commit; the table holds either all the writes of the run, or  *)
(* none of them.                                                           *)
C20_AllOrNothing ==
    /\ tx.error = "update" => (tx.commits = 0 /\ channel_did = tx.before)
    /\ \/ channel_did = tx.before
       \/ tx.commits = 1 /\ channel_did = UpdateDatabase(tx.before, results)

C20_Witness ==
    /\ pc = "closed"
    /\ tx.error = "update"
    /\ tx.writes >= 1
    /\ tx.writes < Len(results)
    /\ channel_did = tx.before
    /\ UpdateDatabase(tx.before, results) # tx.before

(* C21: the connection is opened once and closed exactly once on every    *)
(* exit path of the program, also when the catalog load in the            *)
(* constructor, processing, write-back or an export raises.               *)
C21_ConnectionClosedOnce ==
    pc \in {"closed", "crashed"} => conn = [opens |-> 1, closes |-> 1] /\ ~db_open

(* C22: without a --customer-type option the run uses the CLIENT scope,   *)
(* and exactly one of CLIENT, RESELLER, CARRIER is active in a run.       *)
C22_DefaultIsClient ==
    pc \notin {"parsing", "usage"} =>
        /\ customer_type \in CustomerTypes
        /\ argv.customer_type = None => customer_type = "CLIENT"

(* C22 as the code has it: without the option the run uses the RESELLER   *)
(* scope; with it, the scope named; exactly one of the three is active.   *)
C22_DefaultIsReseller ==
    pc \notin {"parsing", "usage"} =>
        /\ customer_type \in CustomerTypes
        /\ argv.customer_type = None => customer_type = "RESELLER"
        /\ argv.customer_type # None => customer_type = argv.customer_type

C22_Witness ==
    pc = "closed" /\ argv.customer_type = None /\ Len(results) > 0

(* C23: the runs of identify_ranges are maximal: of two runs emitted one  *)
(* after the other, either the owners differ or the later run's first     *)
(* number is not one more than the earlier run's last number.             *)
C23_RunsMaximal ==
    \A k \in 1..Len(runs) - 1 :
        \/ runs[k + 1][1].owner_id # runs[k][1].owner_id
        \/ IntOf(runs[k + 1][1].did) # IntOf(runs[k][Len(runs[k])].did) + 1

(* Two runs of one owner follow each other, the later of several members. *)
C23_Witness ==
    /\ Processed
    /\ \E k \in 1..Len(runs) - 1 :
          /\ runs[k + 1][1].owner_id = runs[k][1].owner_id
          /\ Len(runs[k + 1]) >= 2

(* C24: every output item is a block or a single: range_start is null     *)
(* exactly when range_end is null; a block item has did = range_start =   *)
(* the run's first number, range_end = the run's last number, the product *)
(* code of the run's first number and the run's owner; a single item has  *)
(* the product code of its own number.                                    *)
C24_BlockOrSingle ==
    \A k \in 1..Len(run_items) : \A i \in 1..Len(run_items[k]) :
        LET it == run_items[k][i]
            first == runs[k][1]
        IN  /\ (it.range_start = NoDid) <=> (it.range_end = NoDid)
            /\ it.range_start # NoDid =>
                  /\ it.did = first.did
                  /\ it.range_start = first.did
                  /\ it.range_end = runs[k][Len(runs[k])].did
                  /\ it.did_product = DetermineDidProduct(first.did)
                  /\ it.owner_id = first.owner_id
            /\ it.range_start = NoDid =>
                  /\ it.did_product = DetermineDidProduct(it.did)
                  /\ \E j \in 1..Len(runs[k]) :
                        runs[k][j].did = it.did /\ runs[k][j].owner_id = it.owner_id

(* The output holds a block item and a single item. *)
C24_Witness ==
    /\ Processed
    /\ \E i \in 1..Len(results) : results[i].range_start # NoDid
    /\ \E i \in 1..Len(results) : results[i].range_start = NoDid

(* The product annotation update_database writes for the customer type.   *)
Annotation(row) ==
    IF customer_type = "CLIENT" THEN row.E164_client_product ELSE row.E164_reseller_product

(* The row belongs to the item's owner and is the single item's number or *)
(* lies, by numeric value, in the block item's range.                     *)
Covers(it, row) ==
    /\ OwnerOf(row) = it.owner_id
    /\ \/ it.range_start = NoDid /\ row.did = it.did
       \/ /\ it.range_start # NoDid
          /\ IntOf(it.range_start) <= IntOf(row.did)
          /\ IntOf(row.did) <= IntOf(it.range_end)

(* C25: after update_database every row covered by an item carries that   *)
(* item's product code, and every row of another owner or covered by no   *)
(* item is unchanged.                                                     *)
C25_UpdateFrame ==
    pc \in {"processed", "exported"} =>
        \A i \in 1..Len(channel_did) :
            LET row == channel_did[i]
            IN  /\ \A j \in 1..Len(results) :
                      Covers(results[j], row) => Annotation(row) = results[j].did_product
                /\ (\A j \in 1..Len(results) : ~Covers(results[j], row))
                      => row = tx.before[i]

(* C26: only numbers that match no rule are left out: every fetched       *)
(* record that is not future-dated and whose own number matches a rule is *)
(* in the output, as a single item or inside a block item's range, also   *)
(* when the first number of its run matches no rule.                      *)
C26_OnlyUnmatchedExcluded ==
    Processed =>
        \A i \in 1..Len(dids) :
            (~IsFutureDated(dids[i]) /\ ~Falsy(DetermineDidProduct(dids[i].did)))
                => Represented(dids[i])

(* C27: for every customer type the list identify_ranges produces is      *)
(* ordered by (owner_id, numeric value of did), so what process returns   *)
(* is that list in that order, with or without the CARRIER re-sort.       *)
C27_ResortChangesNothing ==
    Processed =>
        /\ results = Flatten(run_items)
        /\ \A i \in 1..(Len(results) - 1) : KeyLE(results[i], results[i + 1])

(* The re-sort ran on several items of one owner.                         *)
C27_Witness ==
    /\ Processed
    /\ customer_type = "CARRIER"
    /\ \E i \in 1..(Len(results) - 1) :
         /\ results[i].owner_id = results[i + 1].owner_id
         /\ IntOf(results[i].did) < IntOf(results[i + 1].did)

(* The sum of f over the set S. *)
RECURSIVE SumSet(_, _)
SumSet(f, S) ==
    IF S = {} THEN 0
    ELSE LET x == CHOOSE y \in S : TRUE
         IN  f[x] + SumSet(f, S \ {x})

(* The records of the runs that an item of their run stands for: every    *)
(* member of a run emitted as a block, the members with a single item     *)
(* otherwise.                                                             *)
InOutput ==
    {p \in {<<k, j>> : k \in 1..Len(runs), j \in 1..Len(Scanned)} :
        /\ p[2] <= Len(runs[p[1]])
        /\ \E i \in 1..Len(run_items[p[1]]) :
              \/ run_items[p[1]][i].range_start # NoDid
              \/ run_items[p[1]][i].did = runs[p[1]][p[2]].did}

(* C28: in the summary the overall total_dids is the sum of the customers' *)
(* total_dids, a customer's total_dids is the sum of its per-product      *)
(* counts, a block item counts as many numbers as its run has records and *)
(* a single item as one, so total_dids is the number of input records     *)
(* the output items stand for.                                            *)
C28_SummaryTotalsAgree ==
    call.op = "generate_summary" =>
        LET summary == call.result
            owners == DOMAIN summary.customers
        IN  /\ summary.total_dids = SumSet([o \in owners |-> summary.customers[o].total_dids], owners)
            /\ \A o \in owners :
                  summary.customers[o].total_dids
                      = SumSet(summary.customers[o].products,
                               DOMAIN summary.customers[o].products)
            /\ \A k \in 1..Len(run_items) : \A i \in 1..Len(run_items[k]) :
                  NumDids(run_items[k][i])
                      = IF run_items[k][i].range_start # NoDid THEN Len(runs[k]) ELSE 1
            /\ summary.total_dids
                  = Cardinality(InOutput)

(* A summary over a block item and the items of a second customer.        *)
C28_Witness ==
    /\ call.op = "generate_summary"
    /\ Cardinality(DOMAIN call.result.customers) >= 2
    /\ \E i \in 1..Len(results) : results[i].range_start # NoDid

(* The run with the modification times of all members but the first       *)
(* removed.                                                               *)
FirstModDateOnly(run) ==
    [i \in 1..Len(run) |-> IF i = 1 THEN run[i] ELSE [run[i] EXCEPT !.mod_date = NoDate]]

(* C29: a block item's setup is the resolved setup cost or 0 according to *)
(* should_charge_setup of the run's first member, and the modification    *)
(* times of the other members change nothing in the output.               *)
C29_BlockSetupFromFirstMember ==
    Processed =>
        \A k \in 1..Len(runs) :
            (Len(run_items[k]) = 1 /\ run_items[k][1].range_start # NoDid) =>
                LET it == run_items[k][1]
                    cost == GetProductPricing(it.did_product, it.owner_id)[1]
                IN  /\ it.setup = IF ShouldChargeSetup(runs[k][1].mod_date, report_date)
                                  THEN cost ELSE 0
                    /\ run_items[k] = ProcessRange(FirstModDateOnly(runs[k]), report_date)

(* A block whose first member was modified at another time than the       *)
(* others, for a product with a setup cost.                               *)
C29_Witness ==
    /\ Processed
    /\ \E k \in 1..Len(runs) :
          /\ Len(run_items[k]) = 1
          /\ run_items[k][1].range_start # NoDid
          /\ GetProductPricing(run_items[k][1].did_product, run_items[k][1].owner_id)[1] # 0
          /\ runs[k][2].mod_date # NoDate
          /\ runs[k][2].mod_date # runs[k][1].mod_date

(* The previous calendar month of the day the report script runs.         *)
PreviousMonth ==
    IF report.today.m > 1 THEN <<report.today.y, report.today.m - 1>>
    ELSE <<report.today.y - 1, 12>>

(* C30: in the report script the (year, month) that selects the call      *)
(* records is the (year, month) that names the report files: the          *)
(* command-line year and month when both are given, otherwise the         *)
(* previous calendar month.                                               *)
C30_SelectedPeriodIsNamedPeriod ==
    pc = "reported" =>
        LET period == IF argv.year # NULL /\ argv.month # NULL
                      THEN <<argv.year, argv.month>>
                      ELSE PreviousMonth
        IN  /\ report.year_month_str = YearMonthStr(period[1], period[2])
            /\ report.rows = SelectSeq(report.call_history,
                                       LAMBDA row : row.start.y = period[1]
                                                    /\ row.start.m = period[2])

============================================================================
